---- MODULE Spec2Model ----
(***************************************************************************)
(* typescript-partial-lib-dom: the build script (compiler invocation,      *)
(* output directory resolver, output normalizer) and the browser utility   *)
(* wrappers, as state machines.                                            *)
(*                                                                         *)
(* File names are sequences of characters, paths are sequences of names    *)
(* relative to the root of their tree (<<>> is the root directory), file   *)
(* contents are sequences of tokens.                                       *)
(***************************************************************************)
EXTENDS Integers, Sequences, FiniteSets, TLC

VARIABLES
  tsconfig,   \* the tsconfig.json document of the project root (environment)
  tscStatus,  \* the status spawnSync will report for the compiler (environment)
  emit,       \* the files the compiler writes into --outDir (environment)
  licenseTxt, \* LICENSE.txt: "absent" or its text (environment)
  node,       \* what the runtime does with an unhandled rejection: "throw" or "warn"
  reversed,   \* the order in which readdirSync lists a directory (environment)
  tmp,        \* the staging tree  [dirs, files]
  out,        \* the output tree   [dirs, files]
  pc,         \* position of the main script
  outDir,     \* const outDir of the main script
  license,    \* const license of the main script
  tasks,      \* the processFiles activations, by directory
  exitCode,   \* exit status of the process (read when pc = "exited")
  printed,    \* an error was printed on stderr
  hist,       \* history of the current run (what was attempted, written, failed)
  rmFaults,   \* number of removals that failed so far (bounded)
  second,     \* TRUE in the second of two successive runs
  firstRun,   \* what the first run left: its output tree, whether a removal failed
  window,     \* the global `window` of the utilities: "undefined" or the window object
  calls,      \* the calls made to the functions handed to the utilities, in order
  console,    \* the calls made to the console, in order
  result,     \* what the last call of a utility returned or threw
  last,       \* the last call of a utility: its name, its arguments, the state it met
  held,       \* the function the last browserFn or useBrowserCallback alike returned
  made,       \* the call that returned it: its name, its arguments, the state it met
  factories,  \* the calls made to EnvironmentError.throwingFn and warningFn, in order
  memo,       \* the dependency lists handed to React.useMemo, in order
  given       \* the arguments of the last call of the held function

vars == <<tsconfig, tscStatus, emit, licenseTxt, node, reversed, tmp, out, pc, outDir,
          license, tasks, exitCode, printed, hist, rmFaults, second, firstRun,
          window, calls, console, result, last, held, made, factories, memo, given>>

utils == <<window, calls, console, result, last, held, made, factories, memo, given>>

env == <<tsconfig, tscStatus, emit, licenseTxt, node, reversed>>

----------------------------------------------------------------------------
(* Bounds *)

\* deepest directory level of the compiler output (0 = files of the root only)
MaxDepth == 1
\* most files the compiler emits
MaxFiles == 2
\* most removals that fail in one behaviour
MaxRmFaults == 1

----------------------------------------------------------------------------
(* Names, paths, contents *)

A_JS     == <<"a", ".", "j", "s">>
A_DTS    == <<"a", ".", "d", ".", "t", "s">>
A_JS_MAP == <<"a", ".", "j", "s", ".", "m", "a", "p">>
OLD_JS   == <<"o", ".", "j", "s">>
SUB      == <<"s", "u", "b">>

FileNames == {A_JS, A_DTS, A_JS_MAP}

\* listing rank of a name (readdirSync lists by rank, ascending or descending)
Rank(n) ==
  CASE n = A_JS -> 1 [] n = A_JS_MAP -> 2 [] n = SUB -> 3
    [] n = A_DTS -> 4 [] OTHER -> 5

HasSuffix(s, suf) ==
  /\ Len(s) >= Len(suf)
  /\ SubSeq(s, Len(s) - Len(suf) + 1, Len(s)) = suf

\* the test without its anchor: /\.(js|d\.ts)/
QualifiesUnanchored(name) ==
  \E k \in 1..Len(name) :
    \/ HasSuffix(SubSeq(name, 1, k), <<".", "j", "s">>)
    \/ HasSuffix(SubSeq(name, 1, k), <<".", "d", ".", "t", "s">>)

\* /\.(js|d\.ts)$/.test(name)
Qualifies(name) ==
  \/ HasSuffix(name, <<".", "j", "s">>)
  \/ HasSuffix(name, <<".", "d", ".", "t", "s">>)

IsPrefix(p, q) == Len(p) <= Len(q) /\ SubSeq(q, 1, Len(p)) = p

Parent(p) == SubSeq(p, 1, Len(p) - 1)

Last(p) == p[Len(p)]

Prefixes(p) == {SubSeq(p, 1, k) : k \in 0..Len(p)}

RECURSIVE SubDirs(_)
\* the directory paths of depth <= k: sub, sub/sub, ...
SubDirs(k) == IF k = 0 THEN {<<>>} ELSE {<<>>} \cup {<<SUB>> \o d : d \in SubDirs(k - 1)}

DirPaths == SubDirs(MaxDepth)

FilePaths == {d \o <<n>> : d \in DirPaths, n \in FileNames}

RECURSIVE Join(_)
\* path.join of the names of p, as characters
Join(p) == IF p = <<>> THEN <<>> ELSE <<"/">> \o p[1] \o Join(Tail(p))

\* what the compiler writes in the file it emits at p
Body(p) == <<"b", ":">> \o Join(p)

\* the content of a file that was in the output directory before the build
OldBody == <<"o", "l", "d">>

----------------------------------------------------------------------------
(* File trees *)

NoTree == [dirs |-> {}, files |-> <<>>]

EmptyDir == [dirs |-> {<<>>}, files |-> <<>>]

Exists(fs, p) == p \in fs.dirs \/ p \in DOMAIN fs.files

Under(fs, p) == {q \in fs.dirs \cup DOMAIN fs.files : IsPrefix(p, q)}

Children(fs, d) == {Last(q) : q \in {r \in fs.dirs \cup DOMAIN fs.files : Len(r) = Len(d) + 1 /\ IsPrefix(d, r)}}

\* fs.mkdirSync(p, { recursive: true })
MkdirP(fs, p) == [fs EXCEPT !.dirs = @ \cup Prefixes(p)]

\* a file written at p with content c (the directory of p exists)
WriteFile(fs, p, c) ==
  [fs EXCEPT !.files = [q \in DOMAIN fs.files \cup {p} |-> IF q = p THEN c ELSE fs.files[q]]]

\* the tree without p and everything under it
RmTree(fs, p) ==
  [dirs  |-> {q \in fs.dirs : ~IsPrefix(p, q)},
   files |-> [q \in {r \in DOMAIN fs.files : ~IsPrefix(p, r)} |-> fs.files[q]]]

\* the tree a set of emitted files makes: the files and their directories
TreeOf(paths) ==
  [dirs  |-> UNION {Prefixes(Parent(p)) : p \in paths} \cup {<<>>},
   files |-> [p \in paths |-> Body(p)]]

\* the compiler writing its files into an existing tree
Overlay(fs, paths) ==
  [dirs  |-> fs.dirs \cup TreeOf(paths).dirs,
   files |-> [p \in DOMAIN fs.files \cup paths |-> IF p \in paths THEN Body(p) ELSE fs.files[p]]]

----------------------------------------------------------------------------
(* Output Directory Resolver *)

JsUndefined == [t |-> "undefined", s |-> <<>>]
JsNumber    == [t |-> "number", s |-> <<"5">>]
JsStr(s)    == [t |-> "string", s |-> s]

\* the truthiness of a value: what `if (v)` and `!v` test
Truthy(v) ==
  /\ v.t \notin {"undefined", "null"}
  /\ ~(v.t = "string" /\ v.s = <<>>)
  /\ ~(v.t = "number" /\ v.s \in {<<"0">>, <<"NaN">>})

DIST == <<"d", "i", "s", "t">>
BASE == <<".", "/", "b">>

\* __dirname of the script
ProjectDir == <<"/", "p">>

\* resolve(...args) == path.resolve(__dirname, ...args), for one argument
Resolve(s) == IF s # <<>> /\ s[1] = "/" THEN s ELSE IF s = <<>> THEN ProjectDir ELSE ProjectDir \o <<"/">> \o s

ExtendsValues == {JsUndefined, JsStr(<<>>), JsStr(BASE)}

OutDirValues == {JsUndefined, JsStr(<<>>), JsStr(DIST), JsNumber}

\* tsconfig.json: absent, not JSON5, or a JSON5 value; an object has (or lacks) an
\* "extends" member and a "compilerOptions.outDir" member
Docs ==
  {[k |-> kind, extends |-> JsUndefined, outDir |-> JsUndefined] :
      kind \in {"absent", "malformed", "null", "number", "array"}}
  \cup {[k |-> "object", extends |-> e, outDir |-> o] : e \in ExtendsValues, o \in OutDirValues}

ErrInvalid == "Invalid tsconfig.json file in project root"
ErrExtends == "No support for \"extends\" option in tsconfig.json yet"
ErrOutDir  == "The tsconfig.json file must have a \"compilerOptions.outDir\" option"

Thrown(e) == [ok |-> FALSE, path |-> <<>>, err |-> e]
Returned(p) == [ok |-> TRUE, path |-> p, err |-> ""]

\* resolveOutDir() without the test of compilerOptions.outDir
resolveOutDirUnchecked(doc) ==
  IF doc.k = "absent" THEN Thrown("ENOENT")
  ELSE IF doc.k = "malformed" THEN Thrown("SyntaxError")
  ELSE IF doc.k # "object" THEN Thrown(ErrInvalid)
  ELSE IF Truthy(doc.extends) THEN Thrown(ErrExtends)
  ELSE Returned(Resolve(doc.outDir.s))

\* resolveOutDir() testing compilerOptions.outDir before "extends"
resolveOutDirSwapped(doc) ==
  IF doc.k = "absent" THEN Thrown("ENOENT")
  ELSE IF doc.k = "malformed" THEN Thrown("SyntaxError")
  ELSE IF doc.k # "object" THEN Thrown(ErrInvalid)
  ELSE IF ~Truthy(doc.outDir) THEN Thrown(ErrOutDir)
  ELSE IF Truthy(doc.extends) THEN Thrown(ErrExtends)
  ELSE IF doc.outDir.t # "string" THEN Thrown("TypeError")
  ELSE Returned(Resolve(doc.outDir.s))

\* resolveOutDir(): the path returned or the error thrown
resolveOutDir(doc) ==
  IF doc.k = "absent" THEN Thrown("ENOENT")
  ELSE IF doc.k = "malformed" THEN Thrown("SyntaxError")
  ELSE IF doc.k # "object" THEN Thrown(ErrInvalid)
  ELSE IF Truthy(doc.extends) THEN Thrown(ErrExtends)
  ELSE IF ~Truthy(doc.outDir) THEN Thrown(ErrOutDir)
  ELSE IF doc.outDir.t # "string" THEN Thrown("TypeError")
  ELSE Returned(Resolve(doc.outDir.s))

----------------------------------------------------------------------------
(* License header *)

LicenseFile == <<"M", "I", "T", "\n">>

\* text.replace(/\n$/, '')
StripFinalNewline(t) == IF t # <<>> /\ t[Len(t)] = "\n" THEN SubSeq(t, 1, Len(t) - 1) ELSE t

\* the template literal of the main script
LicenseOf(t) == <<"/*!", "\n">> \o StripFinalNewline(t) \o <<"\n", "*/", "\n">>

----------------------------------------------------------------------------
(* Output Normalizer.  One turn of the script (from a call or a resumption *)
(* to the next await, return or throw) works on a record                   *)
(*   S = [tmp, out, tasks, created, hit, ioErr, threw]                     *)
(* and reads a record E = [rf, eager, lic, rev]: the staging paths whose   *)
(* removal fails in this turn, whether a read stream opens its file as     *)
(* soon as it is created, the license text, the listing order.             *)

RECURSIVE SortNames(_, _)
\* the names of ns in listing order
SortNames(ns, rev) ==
  IF ns = {} THEN <<>>
  ELSE LET m == CHOOSE x \in ns : \A y \in ns :
                  IF rev THEN Rank(x) >= Rank(y) ELSE Rank(x) <= Rank(y)
       IN <<m>> \o SortNames(ns \ {m}, rev)

\* fs.readdirSync(d, { withFileTypes: true })
Entries(fs, d, rev) ==
  LET names == SortNames(Children(fs, d), rev)
  IN [k \in 1..Len(names) |-> [name |-> names[k], dir |-> (d \o <<names[k]>>) \in fs.dirs]]

\* fs.rmSync(p, { recursive: true }): throws when p does not exist, and when
\* something at or under p cannot be removed (the tree is then left as it was)
rmSync(fs, p, rf) ==
  IF ~Exists(fs, p) THEN [fs |-> fs, threw |-> TRUE, failed |-> {}]
  ELSE IF Under(fs, p) \cap rf # {} THEN [fs |-> fs, threw |-> TRUE, failed |-> Under(fs, p) \cap rf]
  ELSE [fs |-> RmTree(fs, p), threw |-> FALSE, failed |-> {}]

\* ignoreError(fn): the error fn throws goes nowhere
ignoreError(r) == [r EXCEPT !.threw = FALSE]

\* remove(...path)
remove(fs, p, rf) == ignoreError(rmSync(fs, p, rf))

\* remove(...) of a staging path during a turn
RemoveStaged(S, p, E) ==
  LET r == remove(S.tmp, p, E.rf)
  IN [S EXCEPT !.tmp = r.fs, !.hit = @ \cup r.failed, !.threw = r.threw]

NewTask(es, st) == [entries |-> es, i |-> 1, odc |-> FALSE, st |-> st, opened |-> FALSE, data |-> <<>>]

PutTask(ts, d, t) == [x \in DOMAIN ts \cup {d} |-> IF x = d THEN t ELSE ts[x]]

\* the promise processFiles returned is truthy, whatever its state
PromiseOr(odc) == TRUE

\* fs.mkdirSync(tmpDir, { recursive: true }) of processFiles
MkdirOfWalk(S, d) == [S EXCEPT !.tmp = MkdirP(@, d)]

\* what the write stream leaves in the file: the license, then the data piped
Piped(lic, data) == lic \o data

RECURSIVE Walk(_, _, _, _, _), processFiles(_, _, _)

\* the loop of processFiles for directory d, at entry i with outDirCreated = odc
Walk(S, d, i, odc, E) ==
  LET es == S.tasks[d].entries IN
  IF S.threw THEN [S EXCEPT !.tasks[d].st = "rejected", !.tasks[d].i = i, !.threw = FALSE]
  ELSE IF i > Len(es)
    THEN LET R == RemoveStaged(S, d, E)
         IN [R EXCEPT !.tasks[d].st = IF R.threw THEN "rejected" ELSE "done",
                      !.tasks[d].i = i, !.threw = FALSE]
  ELSE LET p == d \o <<es[i].name>> IN
    IF es[i].dir
      THEN Walk(processFiles(S, p, E), d, i + 1, PromiseOr(odc), E)
    ELSE IF Qualifies(es[i].name)
      THEN LET S1 == IF odc THEN S ELSE MkdirOfWalk(S, d) IN
           IF d \notin S1.out.dirs
             THEN \* fs.writeFileSync throws ENOENT
                  [S1 EXCEPT !.tasks[d].st = "rejected", !.tasks[d].i = i, !.ioErr = TRUE]
             ELSE \* the license is written, the streams are created, the loop awaits
                  [S1 EXCEPT !.out = WriteFile(@, p, E.lic),
                             !.created = @ \cup {p},
                             !.tasks[d] = [@ EXCEPT !.st = "await", !.i = i, !.odc = odc,
                                             !.opened = E.eager /\ p \in DOMAIN S1.tmp.files,
                                             !.data = IF E.eager /\ p \in DOMAIN S1.tmp.files
                                                        THEN S1.tmp.files[p] ELSE <<>>]]
    ELSE Walk(RemoveStaged(S, p, E), d, i + 1, odc, E)

\* processFiles(join(tmpDir, d), join(outDir, d), license), up to its first await:
\* it is not awaited by the loop that calls it
processFiles(S, d, E) ==
  IF d \notin S.tmp.dirs
    THEN [S EXCEPT !.tasks = PutTask(@, d, NewTask(<<>>, "rejected")), !.ioErr = TRUE]
    ELSE Walk([S EXCEPT !.tasks = PutTask(@, d, NewTask(Entries(S.tmp, d, E.rev), "run"))],
              d, 1, FALSE, E)

\* the loop of directory d going on after its await: remove(tmpDir, entry.name), next entry
Resume(S, d, E) ==
  LET t == S.tasks[d]
  IN Walk(RemoveStaged(S, d \o <<t.entries[t.i].name>>, E), d, t.i + 1, t.odc, E)

----------------------------------------------------------------------------
(* The main script and the event loop *)

RECURSIVE EmptyLoop(_, _, _)
\* for (const entry of names) remove(join(path, entry))
EmptyLoop(r, names, rf) ==
  IF names = <<>> \/ r.threw THEN r
  ELSE LET x == remove(r.fs, <<names[1]>>, rf)
       IN EmptyLoop([fs |-> x.fs, threw |-> x.threw, failed |-> r.failed \cup x.failed],
                    Tail(names), rf)

\* empty(path) leaving the loop after its first entry
emptyFirstOnly(fs, rf, rev) ==
  IF <<>> \notin fs.dirs THEN [fs |-> fs, threw |-> TRUE, failed |-> {}]
  ELSE LET names == SortNames(Children(fs, <<>>), rev)
       IN EmptyLoop([fs |-> fs, threw |-> FALSE, failed |-> {}],
                    IF names = <<>> THEN <<>> ELSE <<names[1]>>, rf)

\* empty(path): readdirSync throws when the directory does not exist
empty(fs, rf, rev) ==
  IF <<>> \notin fs.dirs THEN [fs |-> fs, threw |-> TRUE, failed |-> {}]
  ELSE EmptyLoop([fs |-> fs, threw |-> FALSE, failed |-> {}], SortNames(Children(fs, <<>>), rev), rf)

RECURSIVE SubsetsUpTo(_, _)
\* the subsets of S of at most k elements
SubsetsUpTo(S, k) ==
  IF k = 0 THEN {{}}
  ELSE LET smaller == SubsetsUpTo(S, k - 1) IN smaller \cup {A \cup {x} : A \in smaller, x \in S}

\* the sets of paths of fs whose removal may fail in one step, within the budget
RmFaultSets(fs) == SubsetsUpTo(fs.dirs \cup DOMAIN fs.files, MaxRmFaults - rmFaults)

NoHist ==
  [resolver |-> [ok |-> FALSE, path |-> <<>>, err |-> ""], tscInvoked |-> FALSE,
   walked |-> FALSE, staged |-> <<>>, created |-> {}, ioErr |-> FALSE, killed |-> FALSE,
   rmFailed |-> FALSE, streamErr |-> FALSE]

UnreadDoc == [k |-> "unread", extends |-> JsUndefined, outDir |-> JsUndefined]

\* the output directory as a previous build, or something else, left it
PriorOut ==
  { NoTree,
    EmptyDir,
    [dirs  |-> {<<>>, <<SUB>>},
     files |-> [p \in {<<OLD_JS>>, <<SUB, OLD_JS>>} |-> OldBody]] }

\* spawnSync's status: a number, or null when the compiler was not run to its end
Statuses == {[null |-> TRUE, code |-> 0]} \cup {[null |-> FALSE, code |-> c] : c \in {0, 1, 2}}

\* what the compiler may emit
Emissions == SubsetsUpTo(FilePaths, MaxFiles)

NoCall == [op |-> "", fn |-> "", fallback |-> [given |-> FALSE, v |-> JsUndefined],
           window |-> JsUndefined, before |-> 0, consoleBefore |-> 0]

\* no function: nothing was returned by a browserFn or useBrowserCallback alike yet
NoFn == [kind |-> "none", fn |-> "", w |-> JsUndefined, fb |-> ""]

NoArg == [t |-> "undefined", name |-> "", list |-> <<>>]

NoMade == [op |-> "", fn |-> "", arg1 |-> NoArg, arg2 |-> NoArg, window |-> JsUndefined,
           factoriesBefore |-> 0, memoBefore |-> 0]

\* the utilities are not in use
UtilsIdle ==
  /\ window = JsUndefined
  /\ calls = <<>>
  /\ console = <<>>
  /\ result = [threw |-> FALSE, v |-> JsUndefined]
  /\ last = NoCall
  /\ held = NoFn
  /\ made = NoMade
  /\ factories = <<>>
  /\ memo = <<>>
  /\ given = <<>>

Init ==
  /\ UtilsIdle
  /\ tsconfig = UnreadDoc
  /\ tscStatus = [null |-> TRUE, code |-> 0]
  /\ emit = {}
  /\ licenseTxt = [present |-> FALSE, text |-> <<>>]
  /\ node \in {"throw", "warn"}
  /\ reversed \in BOOLEAN
  /\ tmp = NoTree
  /\ out \in PriorOut
  /\ pc = "start"
  /\ outDir = <<>>
  /\ license = <<>>
  /\ tasks = <<>>
  /\ exitCode = 0
  /\ printed = FALSE
  /\ hist = NoHist
  /\ rmFaults = 0
  /\ second = FALSE
  /\ firstRun = [out |-> NoTree, rmFailed |-> FALSE]

\* an exception nobody catches: the runtime prints it and the process ends with 1
Crash ==
  /\ printed' = TRUE
  /\ exitCode' = 1
  /\ pc' = "exited"

\* lines 87-89: the staging directory is created and emptied
MkTmp ==
  /\ pc = "start"
  /\ \E rf \in RmFaultSets(tmp) :
       LET r == empty(MkdirP(tmp, <<>>), rf, reversed) IN
       /\ tmp' = r.fs
       /\ rmFaults' = rmFaults + Cardinality(r.failed)
       /\ hist' = [hist EXCEPT !.rmFailed = @ \/ r.failed # {}]
       /\ IF r.threw THEN Crash ELSE pc' = "resolve" /\ UNCHANGED <<exitCode, printed>>
  /\ UNCHANGED <<utils, env, out, outDir, license, tasks, second, firstRun>>

\* line 90: const outDir = resolveOutDir()
ResolveOutDir ==
  /\ pc = "resolve"
  /\ \E doc \in (IF second THEN {tsconfig} ELSE Docs) :
       /\ tsconfig' = doc
       /\ LET r == resolveOutDir(doc) IN
          /\ hist' = [hist EXCEPT !.resolver = r]
          /\ IF r.ok
               THEN outDir' = r.path /\ pc' = "tsc" /\ UNCHANGED <<exitCode, printed>>
               ELSE Crash /\ UNCHANGED outDir
  /\ UNCHANGED <<utils, tscStatus, emit, licenseTxt, node, reversed, tmp, out, license, tasks,
                 rmFaults, second, firstRun>>

\* kill(status, ...args) for the tree at hand: the staging directory is removed,
\* the process exits
kill(status, fs, rf, hit) ==
  LET r == remove(fs, <<>>, rf) IN
  /\ tmp' = r.fs
  /\ rmFaults' = rmFaults + Cardinality(hit \cup r.failed)
  /\ exitCode' = status
  /\ pc' = "exited"

\* line 91: tsc(tmpDir)
Tsc ==
  /\ pc = "tsc"
  /\ \E st \in (IF second THEN {tscStatus} ELSE Statuses),
        ps \in (IF second THEN {emit} ELSE Emissions) :
       /\ st.null => ps = {}
       /\ tscStatus' = st
       /\ emit' = ps
       /\ IF ~st.null /\ st.code # 0
            THEN \E rf \in RmFaultSets(Overlay(tmp, ps)) :
                 /\ kill(st.code, Overlay(tmp, ps), rf, {})
                 /\ hist' = [hist EXCEPT !.tscInvoked = TRUE, !.killed = TRUE,
                                          !.rmFailed = @ \/ (Under(Overlay(tmp, ps), <<>>) \cap rf # {})]
            ELSE /\ tmp' = Overlay(tmp, ps)
                 /\ pc' = "license"
                 /\ hist' = [hist EXCEPT !.tscInvoked = TRUE]
                 /\ UNCHANGED <<exitCode, rmFaults>>
  /\ UNCHANGED <<utils, tsconfig, licenseTxt, node, reversed, out, outDir, license, tasks,
                 printed, second, firstRun>>

\* lines 92-95: const license = `...${fs.readFileSync(resolve('LICENSE.txt'), 'utf-8')...}...`
ReadLicense ==
  /\ pc = "license"
  /\ \E lt \in (IF second THEN {licenseTxt}
                ELSE {[present |-> FALSE, text |-> <<>>], [present |-> TRUE, text |-> LicenseFile]}) :
       /\ licenseTxt' = lt
       /\ IF lt.present
            THEN license' = LicenseOf(lt.text) /\ pc' = "emptyOut" /\ UNCHANGED <<exitCode, printed>>
            ELSE Crash /\ UNCHANGED license
  /\ UNCHANGED <<utils, tsconfig, tscStatus, emit, node, reversed, tmp, out, outDir, tasks,
                 hist, rmFaults, second, firstRun>>

\* line 96: empty(outDir)
EmptyOut ==
  /\ pc = "emptyOut"
  /\ \E rf \in RmFaultSets(out) :
       LET r == empty(out, rf, reversed) IN
       /\ out' = r.fs
       /\ rmFaults' = rmFaults + Cardinality(r.failed)
       /\ hist' = [hist EXCEPT !.rmFailed = @ \/ r.failed # {}]
       /\ IF r.threw THEN Crash ELSE pc' = "walk" /\ UNCHANGED <<exitCode, printed>>
  /\ UNCHANGED <<utils, env, tmp, outDir, license, tasks, second, firstRun>>

\* what the runtime does once a turn of the walk is over: the rejection of the
\* top-level promise goes to .catch((error) => kill(1, error)); a rejected promise of
\* a nested call has no handler
Settle(S, E, h0) ==
  LET h == [h0 EXCEPT !.created = S.created, !.ioErr = S.ioErr]
  IN IF S.tasks[<<>>].st = "rejected"
       THEN LET r == remove(S.tmp, <<>>, E.rf) IN
            /\ kill(1, S.tmp, E.rf, S.hit)
            /\ printed' = TRUE
            /\ hist' = [h EXCEPT !.killed = TRUE, !.rmFailed = @ \/ (S.hit \cup r.failed # {})]
     ELSE /\ tmp' = S.tmp
          /\ rmFaults' = rmFaults + Cardinality(S.hit)
          /\ hist' = [h EXCEPT !.rmFailed = @ \/ S.hit # {}]
          /\ IF node = "throw" /\ \E d \in DOMAIN S.tasks : S.tasks[d].st = "rejected"
               THEN Crash
               ELSE pc' = "loop" /\ UNCHANGED <<exitCode, printed>>

Turn == {[rf |-> rf, eager |-> eg, lic |-> license, rev |-> reversed] :
           rf \in RmFaultSets(tmp), eg \in BOOLEAN}

\* line 97: processFiles(tmpDir, outDir, license).catch(...)
StartWalk ==
  /\ pc = "walk"
  /\ \E E \in Turn :
       LET S0 == [tmp |-> tmp, out |-> out, tasks |-> <<>>, created |-> {}, hit |-> {},
                  ioErr |-> FALSE, threw |-> FALSE]
           S  == processFiles(S0, <<>>, E)
       IN /\ out' = S.out
          /\ tasks' = S.tasks
          /\ Settle(S, E, [hist EXCEPT !.walked = TRUE, !.staged = tmp.files])
  /\ UNCHANGED <<utils, env, outDir, license, second, firstRun>>

\* the turn record of the state at hand
Now == [tmp |-> tmp, out |-> out, tasks |-> tasks, created |-> hist.created, hit |-> {},
        ioErr |-> hist.ioErr, threw |-> FALSE]

Awaiting(d) == d \in DOMAIN tasks /\ tasks[d].st = "await"

StagedFile(d) == d \o <<tasks[d].entries[tasks[d].i].name>>

\* the read stream of processFile opens its file; its 'error' event has no listener
ReadOpen(d) ==
  /\ pc = "loop"
  /\ Awaiting(d) /\ ~tasks[d].opened
  /\ \E ok \in BOOLEAN :
       IF ok /\ StagedFile(d) \in DOMAIN tmp.files
         THEN /\ tasks' = [tasks EXCEPT ![d].opened = TRUE, ![d].data = tmp.files[StagedFile(d)]]
              /\ UNCHANGED <<pc, exitCode, printed, hist>>
         ELSE /\ Crash
              /\ hist' = [hist EXCEPT !.ioErr = TRUE, !.streamErr = TRUE]
              /\ UNCHANGED tasks
  /\ UNCHANGED <<utils, env, tmp, out, outDir, license, rmFaults, second, firstRun>>

\* writeStream.on('finish', resolve): the file is written, the loop of d goes on
Finish(d) ==
  /\ pc = "loop"
  /\ Awaiting(d) /\ tasks[d].opened
  /\ \E E \in Turn :
       LET S0 == [Now EXCEPT !.out = WriteFile(@, StagedFile(d), Piped(license, tasks[d].data))]
           S  == Resume(S0, d, E)
       IN /\ out' = S.out
          /\ tasks' = S.tasks
          /\ Settle(S, E, hist)
  /\ UNCHANGED <<utils, env, outDir, license, second, firstRun>>

\* writeStream.on('error', reject): the await of d throws
WriteError(d) ==
  /\ pc = "loop"
  /\ Awaiting(d)
  /\ \E E \in Turn :
       LET S == [Now EXCEPT !.tasks[d].st = "rejected", !.ioErr = TRUE]
       IN /\ tasks' = S.tasks
          /\ Settle(S, E, [hist EXCEPT !.streamErr = TRUE])
  /\ UNCHANGED <<utils, env, out, outDir, license, second, firstRun>>

\* nothing is pending: the process ends with status 0
ExitLoop ==
  /\ pc = "loop"
  /\ \A d \in DOMAIN tasks : tasks[d].st # "await"
  /\ pc' = "exited"
  /\ exitCode' = 0
  /\ UNCHANGED <<utils, env, tmp, out, outDir, license, tasks, printed, hist, rmFaults, second, firstRun>>

\* the build is run again, with the same configuration, compiler output and license
Rerun ==
  /\ pc = "exited" /\ exitCode = 0 /\ ~second
  /\ second' = TRUE
  /\ firstRun' = [out |-> out, rmFailed |-> hist.rmFailed]
  /\ pc' = "start"
  /\ tasks' = <<>>
  /\ hist' = NoHist
  /\ printed' = FALSE
  /\ outDir' = <<>>
  /\ license' = <<>>
  /\ UNCHANGED <<utils, env, tmp, out, exitCode, rmFaults>>

Next ==
  \/ MkTmp
  \/ ResolveOutDir
  \/ Tsc
  \/ ReadLicense
  \/ EmptyOut
  \/ StartWalk
  \/ \E d \in DirPaths : ReadOpen(d)
  \/ \E d \in DirPaths : Finish(d)
  \/ \E d \in DirPaths : WriteError(d)
  \/ ExitLoop
  \/ Rerun

Spec == Init /\ [][Next]_vars

----------------------------------------------------------------------------
(* Properties of the build script *)

\* the promise of the top-level processFiles call is resolved
WalkResolved == <<>> \in DOMAIN tasks /\ tasks[<<>>].st = "done"

\* the name ends in .js or .d.ts (read off its last characters)
EndsInJsOrDts(n) ==
  LET k == Len(n) IN
  \/ k >= 3 /\ n[k - 2] = "." /\ n[k - 1] = "j" /\ n[k] = "s"
  \/ k >= 5 /\ n[k - 4] = "." /\ n[k - 3] = "d" /\ n[k - 2] = "." /\ n[k - 1] = "t" /\ n[k] = "s"

StagedQualifying == {p \in DOMAIN hist.staged : EndsInJsOrDts(Last(p))}

StagedOther == {p \in DOMAIN hist.staged : ~EndsInJsOrDts(Last(p))}

Copied(p) == p \in DOMAIN out.files /\ out.files[p] = license \o hist.staged[p]

\* C1: once the walk of the staging root has completed, every staged file whose name
\* ends in .js or .d.ts is in the output tree at the same relative path, its content
\* the license followed by the staged content.
C1_QualifyingFilesCopied ==
  WalkResolved => \A p \in StagedQualifying : Copied(p)

\* (what does hold: the files of the staging root itself are copied)
RootFilesCopied ==
  WalkResolved => \A p \in StagedQualifying : Len(p) = 1 => Copied(p)

\* C1 is reached: a staged file of a subdirectory, the walk of the root resolved
C1_Reached == WalkResolved /\ \E p \in StagedQualifying : Len(p) > 1

C3_WalkAwaitsEveryWrite ==
  WalkResolved => \A d \in DOMAIN tasks : tasks[d].st # "await"

\* C4: however the run ends, the staging directory is gone when it is over, unless a
\* removal failed.
C4_StagingRemovedAtExit ==
  (pc = "exited" /\ ~hist.rmFailed) => <<>> \notin tmp.dirs

\* the normalization phase failed: a read or write failed, or a walk was rejected
NormalizationFailed ==
  hist.walked /\ (hist.ioErr \/ \E d \in DOMAIN tasks : tasks[d].st = "rejected")

CompilerFailed == hist.tscInvoked /\ ~tscStatus.null /\ tscStatus.code # 0

\* C5: the exit status is the compiler's when the compiler exits with a non-zero
\* status (after the staging cleanup, before any normalization), 1 with the error
\* printed when the normalization phase fails, and 0 when the run succeeds.
C5_ExitStatus ==
  pc = "exited" =>
    /\ CompilerFailed => exitCode = tscStatus.code /\ hist.killed /\ ~hist.walked
    /\ NormalizationFailed => exitCode = 1 /\ printed
    /\ (hist.walked /\ ~NormalizationFailed) => exitCode = 0

\* C6: an error while reading a staged file or writing its output file ends the run
\* with a non-zero status, the staging cleanup of kill having been attempted.
C6_IoErrorAbortsWithCleanup ==
  (pc = "exited" /\ hist.ioErr) => exitCode # 0 /\ hist.killed

\* the document has no compilerOptions.outDir member
LacksOutDir(doc) == doc.outDir = JsUndefined

\* C7: once a configuration without compilerOptions.outDir has been read, the
\* compiler is not invoked.
C7_NoCompilerWithoutOutDir ==
  (tsconfig.k # "unread" /\ LacksOutDir(tsconfig)) => ~hist.tscInvoked /\ pc \in {"exited"}

\* an object without extends and without outDir was read, the run is over
C7_Witness ==
  /\ tsconfig.k = "object" /\ tsconfig.extends = JsUndefined /\ LacksOutDir(tsconfig)
  /\ pc = "exited" /\ exitCode = 1 /\ ~hist.tscInvoked

\* resolveOutDir has run in this run
Resolved == pc \notin {"start", "resolve"}

\* C8 as stated: the path is returned exactly when the document is an object without
\* an "extends" member and with a compilerOptions.outDir member; a document with
\* "extends" gets the error about "extends".
C8_AsStated ==
  Resolved =>
    /\ hist.resolver.ok <=>
         (tsconfig.k = "object" /\ tsconfig.extends = JsUndefined /\ ~LacksOutDir(tsconfig))
    /\ hist.resolver.ok => outDir = Resolve(tsconfig.outDir.s)
    /\ (tsconfig.k = "object" /\ Truthy(tsconfig.extends)) => hist.resolver.err = ErrExtends

\* C8: the path is returned exactly when the document is an object whose "extends" is
\* missing or falsy and whose compilerOptions.outDir is a non-empty string; otherwise
\* an error is thrown (the run ends with 1 before the compiler); a truthy "extends"
\* gets the error about "extends", with or without outDir.
C8_ResolveOutDir ==
  Resolved =>
    /\ hist.resolver.ok <=>
         /\ tsconfig.k = "object"
         /\ ~Truthy(tsconfig.extends)
         /\ tsconfig.outDir.t = "string" /\ tsconfig.outDir.s # <<>>
    /\ hist.resolver.ok => outDir = ProjectDir \o <<"/">> \o tsconfig.outDir.s
    /\ ~hist.resolver.ok => pc = "exited" /\ exitCode = 1 /\ hist.resolver.err # "" /\ ~hist.tscInvoked
    /\ (tsconfig.k = "object" /\ Truthy(tsconfig.extends)) => hist.resolver.err = ErrExtends

\* a document with a truthy "extends" and an outDir was refused
C8_Witness ==
  /\ Resolved /\ tsconfig.k = "object" /\ Truthy(tsconfig.extends)
  /\ tsconfig.outDir = JsStr(DIST) /\ hist.resolver.err = ErrExtends

FaultFreeExit ==
  IF ~resolveOutDir(tsconfig).ok THEN 1
  ELSE IF ~tscStatus.null /\ tscStatus.code # 0 THEN tscStatus.code
  ELSE IF ~licenseTxt.present THEN 1
  ELSE IF <<>> \notin out.dirs THEN 1
  ELSE IF node = "throw" /\ \E p \in emit : Len(p) > 1 /\ EndsInJsOrDts(Last(p)) THEN 1
  ELSE 0

\* (what does hold: FaultFreeExit is the exit status of the runs without a failed
\* removal and without a stream error)
FaultFreeExitIsExit ==
  (pc = "exited" /\ rmFaults = 0 /\ ~hist.streamErr) => exitCode = FaultFreeExit

\* C16: a removal that fails is swallowed: the run goes on and ends with the exit
\* status it would have had, had the removal succeeded.
C16_RemovalFailureKeepsExitStatus ==
  (pc = "exited" /\ ~hist.streamErr) => exitCode = FaultFreeExit

\* a run in which a removal failed is over
C16_Reached == pc = "exited" /\ hist.rmFailed /\ ~hist.streamErr /\ hist.walked

----------------------------------------------------------------------------
(* The browser utilities (utils.ts).  A call of a utility yields an effect:  *)
(* the calls it made to the functions it was given, what it sent to the      *)
(* console, and the value it returned or threw.                              *)

\* most calls logged in one behaviour
MaxCalls == 2

WindowObj == [t |-> "object", s |-> <<"window">>]
JsZero    == [t |-> "number", s |-> <<"0">>]
JsNaN     == [t |-> "number", s |-> <<"NaN">>]

\* new EnvironmentError(fn)
EnvironmentError(fn) == [t |-> "EnvironmentError", s |-> <<fn>>]

JsNull     == [t |-> "null", s |-> <<>>]
JsFunction == [t |-> "function", s |-> <<>>]

\* the functions handed to the utilities: fn0 = () => 0, idFn = (window) => window
Fns == {"fn0", "idFn"}

\* the function handed to browserFn and useBrowserCallback alikes:
\* argFn = (window, y) => y
BrowserFns == {"argFn"}

\* the fallback functions: nullFn = () => null
FallbackFns == {"nullFn"}

\* the result of fn(...args); voidFn is function voidFn() {}
Apply(fn, args) ==
  CASE fn = "idFn" -> args[1]
    [] fn = "argFn" -> (IF Len(args) >= 2 THEN args[2] ELSE JsUndefined)
    [] fn = "nullFn" -> JsNull
    [] fn = "voidFn" -> JsUndefined
    [] OTHER -> JsZero

\* the optional fallbackValue argument
Fallbacks ==
  {[given |-> FALSE, v |-> JsUndefined], [given |-> TRUE, v |-> JsNaN], [given |-> TRUE, v |-> WindowObj]}

\* the value of the parameter fallbackValue in the body
FallbackValue(fb) == IF fb.given THEN fb.v ELSE JsUndefined

Return(v) == [calls |-> <<>>, console |-> <<>>, threw |-> FALSE, v |-> v]

\* fn(...args)
Call(fn, args) ==
  [calls |-> <<[fn |-> fn, args |-> args]>>, console |-> <<>>, threw |-> FALSE, v |-> Apply(fn, args)]

\* console.error(v), then the effect e
ConsoleError(v, e) == [e EXCEPT !.console = <<[method |-> "error", arg |-> v]>> \o @]

\* onBrowser calling fn whether or not window is defined
onBrowserUnguarded(fn, fallbackValue) == Call(fn, <<window>>)

\* onBrowser(fn, fallbackValue)
onBrowser(fn, fallbackValue) ==
  IF Truthy(window) THEN Call(fn, <<window>>) ELSE Return(fallbackValue)

\* onBrowserOrWarn(fn, fallbackValue)
onBrowserOrWarn(fn, fallbackValue) ==
  LET e == IF Truthy(window) THEN Call(fn, <<window>>) ELSE Return(fallbackValue)
  IN IF ~Truthy(window) THEN ConsoleError(EnvironmentError(fn), e) ELSE e

\* throw v
Throw(v) == [calls |-> <<>>, console |-> <<>>, threw |-> TRUE, v |-> v]

\* onBrowserOrThrow returning undefined instead of throwing
onBrowserOrThrowSilent(fn) ==
  IF Truthy(window) THEN Call(fn, <<window>>) ELSE Return(JsUndefined)

\* onBrowserOrThrow(fn)
onBrowserOrThrow(fn) ==
  IF Truthy(window) THEN Call(fn, <<window>>) ELSE Throw(EnvironmentError(fn))

----------------------------------------------------------------------------
(* browserFn and useBrowserCallback alikes.  A function value is a record:   *)
(* fn.bind(null, w), a function passed or voidFn itself, or the closure      *)
(* returned by EnvironmentError.throwingFn or warningFn.  An argument of a   *)
(* hook is a function, a dependency list, or missing.                        *)

FnArg(name) == [t |-> "function", name |-> name, list |-> <<>>]

ListArg(l) == [t |-> "list", name |-> "", list |-> l]

\* arg instanceof Function
InstanceOfFunction(arg) == arg.t = "function"

\* fn.bind(null, w)
Bound(fn, w) == [kind |-> "bound", fn |-> fn, w |-> w, fb |-> ""]

\* the function called name, as it is
Plain(name) == [kind |-> "plain", fn |-> name, w |-> JsUndefined, fb |-> ""]

\* the parameter fallbackFn = voidFn
DefaultFn(arg) == IF arg.t = "undefined" THEN "voidFn" ELSE arg.name

\* the closure EnvironmentError.throwingFn(fn) returns
throwingFn(fn) == [kind |-> "throwing", fn |-> fn, w |-> JsUndefined, fb |-> ""]

\* the closure EnvironmentError.warningFn(fn, fallbackFn) returns
warningFn(fn, fallbackFn) == [kind |-> "warning", fn |-> fn, w |-> JsUndefined, fb |-> fallbackFn]

\* a function returned, the factories called and the useMemo calls made on the way
Made(f) == [f |-> f, factories |-> <<>>, memo |-> <<>>]

ViaThrowingFn(fn) ==
  [f |-> throwingFn(fn), factories |-> <<[name |-> "throwingFn", fn |-> fn, fb |-> ""]>>, memo |-> <<>>]

ViaWarningFn(fn, fallbackFn) ==
  [f |-> warningFn(fn, fallbackFn),
   factories |-> <<[name |-> "warningFn", fn |-> fn, fb |-> fallbackFn]>>, memo |-> <<>>]

\* React.useMemo(factory, deps) of a component being mounted: the factory is run
useMemo(r, deps) == [r EXCEPT !.memo = <<deps>>]

\* browserFn(fn, fallbackFn)
browserFn(fn, fallbackFn) ==
  IF Truthy(window) THEN Made(Bound(fn, window)) ELSE Made(Plain(DefaultFn(fallbackFn)))

\* browserFnOrThrow(fn)
browserFnOrThrow(fn) ==
  IF Truthy(window) THEN Made(Bound(fn, window)) ELSE ViaThrowingFn(fn)

\* browserFnOrWarn(fn, fallbackFn)
browserFnOrWarn(fn, fallbackFn) ==
  IF Truthy(window) THEN Made(Bound(fn, window)) ELSE ViaWarningFn(fn, DefaultFn(fallbackFn))

\* useBrowserCallback(fn, arg1, arg2)
useBrowserCallback(fn, arg1, arg2) ==
  LET deps == IF InstanceOfFunction(arg1) THEN arg2 ELSE arg1
  IN useMemo(IF Truthy(window) THEN Made(Bound(fn, window))
             ELSE Made(Plain(IF InstanceOfFunction(arg1) THEN arg1.name ELSE "voidFn")),
             deps)

\* useBrowserCallbackOrThrow(fn, deps)
useBrowserCallbackOrThrow(fn, deps) ==
  useMemo(IF Truthy(window) THEN Made(Bound(fn, window)) ELSE ViaThrowingFn(fn), deps)

\* useBrowserCallbackOrWarn taking its second argument for the dependency list
useBrowserCallbackOrWarnArg1(fn, arg1, arg2) ==
  useMemo(IF Truthy(window) THEN Made(Bound(fn, window))
          ELSE ViaWarningFn(fn, IF InstanceOfFunction(arg1) THEN arg1.name ELSE "voidFn"),
          arg1)

\* useBrowserCallbackOrWarn(fn, arg1, arg2)
useBrowserCallbackOrWarn(fn, arg1, arg2) ==
  useMemo(IF Truthy(window) THEN Made(Bound(fn, window))
          ELSE ViaWarningFn(fn, IF InstanceOfFunction(arg1) THEN arg1.name ELSE "voidFn"),
          IF InstanceOfFunction(arg1) THEN arg2 ELSE arg1)

\* the closure of warningFn called with as: console.error, fallbackFn(...as), no return
CallWarningFn(f, as) ==
  ConsoleError(EnvironmentError(f.fn), [Call(f.fb, as) EXCEPT !.v = JsUndefined])

\* the closure of throwingFn returning undefined instead of throwing
CallThrowingFnSilent(f) == Return(JsUndefined)

\* the closure of throwingFn called
CallThrowingFn(f) == Throw(EnvironmentError(f.fn))

\* f(...as)
Invoke(f, as) ==
  CASE f.kind = "bound" -> Call(f.fn, <<f.w>> \o as)
    [] f.kind = "plain" -> Call(f.fn, as)
    [] f.kind = "throwing" -> CallThrowingFn(f)
    [] f.kind = "warning" -> CallWarningFn(f, as)

\* the state after a call of utility op with effect e
Perform(op, fn, fb, e) ==
  /\ calls' = calls \o e.calls
  /\ console' = console \o e.console
  /\ result' = [threw |-> e.threw, v |-> e.v]
  /\ last' = [op |-> op, fn |-> fn, fallback |-> fb, window |-> window,
              before |-> Len(calls), consoleBefore |-> Len(console)]
  /\ UNCHANGED <<window, held, made, factories, memo, given>>

Room == Len(calls) < MaxCalls /\ Len(console) < MaxCalls

BuildIdle == UNCHANGED <<tsconfig, tscStatus, emit, licenseTxt, node, reversed, tmp, out, pc,
                         outDir, license, tasks, exitCode, printed, hist, rmFaults, second,
                         firstRun>>

\* the environment: window becomes defined, or undefined
SetWindow ==
  /\ window' = IF window = JsUndefined THEN WindowObj ELSE JsUndefined
  /\ UNCHANGED <<calls, console, result, last, held, made, factories, memo, given>>
  /\ BuildIdle

CallOnBrowser ==
  /\ Room
  /\ \E fn \in Fns, fb \in Fallbacks :
       Perform("onBrowser", fn, fb, onBrowser(fn, FallbackValue(fb)))
  /\ BuildIdle

CallOnBrowserOrWarn ==
  /\ Room
  /\ \E fn \in Fns, fb \in Fallbacks :
       Perform("onBrowserOrWarn", fn, fb, onBrowserOrWarn(fn, FallbackValue(fb)))
  /\ BuildIdle

NoFallback == [given |-> FALSE, v |-> JsUndefined]

CallOnBrowserOrThrow ==
  /\ Room
  /\ \E fn \in Fns : Perform("onBrowserOrThrow", fn, NoFallback, onBrowserOrThrow(fn))
  /\ BuildIdle

\* most calls of a factory of EnvironmentError, and of React.useMemo, in one behaviour
MaxMade == 1

\* the state after a call of op that returned the function of r
Create(op, fn, arg1, arg2, r) ==
  /\ Len(factories) + Len(r.factories) <= MaxMade
  /\ Len(memo) + Len(r.memo) <= MaxMade
  /\ held' = r.f
  /\ made' = [op |-> op, fn |-> fn, arg1 |-> arg1, arg2 |-> arg2, window |-> window,
              factoriesBefore |-> Len(factories), memoBefore |-> Len(memo)]
  /\ factories' = factories \o r.factories
  /\ memo' = memo \o r.memo
  /\ result' = [threw |-> FALSE, v |-> JsFunction]
  /\ last' = [op |-> op, fn |-> fn, fallback |-> NoFallback, window |-> window,
              before |-> Len(calls), consoleBefore |-> Len(console)]
  /\ UNCHANGED <<window, calls, console, given>>
  /\ BuildIdle

\* the fallbackFn argument: missing, or a function
FallbackArgs == {NoArg} \cup {FnArg(f) : f \in FallbackFns}

\* the dependency lists
DepsArgs == {ListArg(<<>>), ListArg(<<"y">>)}

\* the arguments of a hook after fn: deps, or fallbackFn and deps
HookArgs == {<<d, NoArg>> : d \in DepsArgs} \cup {<<FnArg(f), d>> : f \in FallbackFns, d \in DepsArgs}

CallBrowserFn ==
  \E fn \in BrowserFns, fb \in FallbackArgs :
    Create("browserFn", fn, fb, NoArg, browserFn(fn, fb))

CallBrowserFnOrThrow ==
  \E fn \in BrowserFns :
    Create("browserFnOrThrow", fn, NoArg, NoArg, browserFnOrThrow(fn))

CallBrowserFnOrWarn ==
  \E fn \in BrowserFns, fb \in FallbackArgs :
    Create("browserFnOrWarn", fn, fb, NoArg, browserFnOrWarn(fn, fb))

CallUseBrowserCallback ==
  \E fn \in BrowserFns, a \in HookArgs :
    Create("useBrowserCallback", fn, a[1], a[2], useBrowserCallback(fn, a[1], a[2]))

CallUseBrowserCallbackOrThrow ==
  \E fn \in BrowserFns, d \in DepsArgs :
    Create("useBrowserCallbackOrThrow", fn, d, NoArg, useBrowserCallbackOrThrow(fn, d))

CallUseBrowserCallbackOrWarn ==
  \E fn \in BrowserFns, a \in HookArgs :
    Create("useBrowserCallbackOrWarn", fn, a[1], a[2], useBrowserCallbackOrWarn(fn, a[1], a[2]))

\* the arguments the held function is called with
ArgLists == {<<>>, <<JsNaN>>}

\* most calls of a held function in one behaviour
MaxHeldCalls == 1

\* the function held is called
CallHeld ==
  /\ Len(calls) < MaxHeldCalls /\ Len(console) < MaxHeldCalls
  /\ held # NoFn
  /\ \E as \in ArgLists :
       LET e == Invoke(held, as) IN
       /\ calls' = calls \o e.calls
       /\ console' = console \o e.console
       /\ result' = [threw |-> e.threw, v |-> e.v]
       /\ last' = [op |-> "call", fn |-> held.fn, fallback |-> NoFallback, window |-> window,
                   before |-> Len(calls), consoleBefore |-> Len(console)]
       /\ given' = as
  /\ UNCHANGED <<window, held, made, factories, memo>>
  /\ BuildIdle

UtilsInit ==
  /\ UtilsIdle
  /\ tsconfig = UnreadDoc
  /\ tscStatus = [null |-> TRUE, code |-> 0]
  /\ emit = {}
  /\ licenseTxt = [present |-> FALSE, text |-> <<>>]
  /\ node = "throw"
  /\ reversed = FALSE
  /\ tmp = NoTree
  /\ out = NoTree
  /\ pc = "start"
  /\ outDir = <<>>
  /\ license = <<>>
  /\ tasks = <<>>
  /\ exitCode = 0
  /\ printed = FALSE
  /\ hist = NoHist
  /\ rmFaults = 0
  /\ second = FALSE
  /\ firstRun = [out |-> NoTree, rmFailed |-> FALSE]

UtilsNext ==
  \/ SetWindow
  \/ CallOnBrowser
  \/ CallOnBrowserOrWarn
  \/ CallOnBrowserOrThrow

SpecUtils == UtilsInit /\ [][UtilsNext]_vars

\* the functions made by browserFn and useBrowserCallback alikes, and their calls
FnsNext ==
  \/ SetWindow
  \/ CallBrowserFn
  \/ CallBrowserFnOrThrow
  \/ CallBrowserFnOrWarn
  \/ CallUseBrowserCallback
  \/ CallUseBrowserCallbackOrThrow
  \/ CallUseBrowserCallbackOrWarn
  \/ CallHeld

SpecFns == UtilsInit /\ [][FnsNext]_vars

\* C10: onBrowser and onBrowserOrWarn call fn exactly once, with window, and return
\* its result when window is defined; when it is undefined they do not call fn and
\* return the fallback value, undefined when none is given.
C10_OnBrowserResult ==
  last.op \in {"onBrowser", "onBrowserOrWarn"} =>
    /\ ~result.threw
    /\ IF last.window # JsUndefined
         THEN /\ calls = SubSeq(calls, 1, last.before) \o <<[fn |-> last.fn, args |-> <<last.window>>]>>
              /\ result.v = Apply(last.fn, <<last.window>>)
         ELSE /\ Len(calls) = last.before
              /\ result.v = (IF last.fallback.given THEN last.fallback.v ELSE JsUndefined)

\* both cases have happened: fn called on a browser, then the fallback returned off it
C10_Witness ==
  /\ last.op = "onBrowserOrWarn" /\ last.window = JsUndefined /\ last.fallback.given
  /\ result.v = last.fallback.v
  /\ Len(calls) = 1 /\ calls[1].args = <<WindowObj>>

\* C11: onBrowserOrThrow(fn) calls fn once with window and returns its result when
\* window is defined; when window is undefined it throws an EnvironmentError whose fn
\* field is the function passed, and does not call fn.
C11_OnBrowserOrThrow ==
  last.op = "onBrowserOrThrow" =>
    IF last.window # JsUndefined
      THEN /\ ~result.threw
           /\ calls = SubSeq(calls, 1, last.before) \o <<[fn |-> last.fn, args |-> <<last.window>>]>>
           /\ result.v = Apply(last.fn, <<last.window>>)
      ELSE /\ result.threw
           /\ result.v.t = "EnvironmentError" /\ result.v.s = <<last.fn>>
           /\ Len(calls) = last.before

\* onBrowserOrThrow has thrown off a browser, after a call that went through on one
C11_Witness ==
  /\ last.op = "onBrowserOrThrow" /\ last.window = JsUndefined
  /\ result.threw /\ result.v = EnvironmentError(last.fn)
  /\ Len(calls) = 1 /\ calls[1].args = <<WindowObj>>

----------------------------------------------------------------------------
(* Properties of browserFn and useBrowserCallback alikes *)

\* what the last call sent to the console
Sent == SubSeq(console, last.consoleBefore + 1, Len(console))

\* the calls the last call made to the functions given
Called == SubSeq(calls, last.before + 1, Len(calls))

OrWarnOps == {"browserFnOrWarn", "useBrowserCallbackOrWarn"}

OrThrowOps == {"browserFnOrThrow", "useBrowserCallbackOrThrow"}

HookOps == {"useBrowserCallback", "useBrowserCallbackOrWarn", "useBrowserCallbackOrThrow"}

\* the held function has just been called
HeldCalled == last.op = "call"

\* C12: with window undefined, a call of onBrowserOrWarn(fn), or of the function that
\* browserFnOrWarn or useBrowserCallbackOrWarn returned, sends exactly one warning to
\* the console, through console.warn, with an EnvironmentError as its only argument;
\* with window defined it sends nothing.
C12_WarnsThroughConsoleWarn ==
  (last.op = "onBrowserOrWarn" \/ (HeldCalled /\ made.op \in OrWarnOps)) =>
    IF last.window = JsUndefined
      THEN /\ Len(Sent) = 1
           /\ Sent[1].method = "warn"
           /\ Sent[1].arg.t = "EnvironmentError"
      ELSE Sent = <<>>

\* the fallback function of the call that made the held function, voidFn when none
FallbackOfMade == IF InstanceOfFunction(made.arg1) THEN made.arg1.name ELSE "voidFn"

\* the last argument of the call that made the held function
LastArgOfMade == IF made.arg2 # NoArg THEN made.arg2 ELSE made.arg1

\* C13: a function made while window is defined is fn bound to window: called with
\* args it returns fn(window, ...args).  Made while window is undefined it is the
\* fallbackFn itself (voidFn when none) for browserFn and useBrowserCallback, the
\* result of the one call warningFn(fn, fallbackFn or voidFn) for the OrWarn variants,
\* the result of the one call throwingFn(fn) for the OrThrow variants.  A hook hands
\* its last argument to useMemo as the dependency list.
C13_FunctionReturned ==
  made.op # "" =>
    /\ IF made.window # JsUndefined
         THEN /\ held = Bound(made.fn, made.window)
              /\ Len(factories) = made.factoriesBefore
              /\ HeldCalled =>
                   /\ ~result.threw
                   /\ result.v = Apply(made.fn, <<made.window>> \o given)
                   /\ Called = <<[fn |-> made.fn, args |-> <<made.window>> \o given]>>
         ELSE IF made.op \in OrWarnOps
           THEN /\ held = warningFn(made.fn, FallbackOfMade)
                /\ factories = SubSeq(factories, 1, made.factoriesBefore)
                                  \o <<[name |-> "warningFn", fn |-> made.fn, fb |-> FallbackOfMade]>>
         ELSE IF made.op \in OrThrowOps
           THEN /\ held = throwingFn(made.fn)
                /\ factories = SubSeq(factories, 1, made.factoriesBefore)
                                  \o <<[name |-> "throwingFn", fn |-> made.fn, fb |-> ""]>>
         ELSE /\ held = Plain(FallbackOfMade)
              /\ Len(factories) = made.factoriesBefore
    /\ IF made.op \in HookOps
         THEN memo = SubSeq(memo, 1, made.memoBefore) \o <<LastArgOfMade>>
         ELSE Len(memo) = made.memoBefore

\* useBrowserCallbackOrWarn(fn, fallbackFn, deps) off a browser: warningFn called once
\* with fn and fallbackFn, deps handed to useMemo
C13_Witness ==
  /\ made.op = "useBrowserCallbackOrWarn" /\ made.window = JsUndefined
  /\ made.arg1 = FnArg("nullFn") /\ made.arg2 = ListArg(<<"y">>)
  /\ held = warningFn(made.fn, "nullFn")
  /\ factories = <<[name |-> "warningFn", fn |-> made.fn, fb |-> "nullFn"]>>
  /\ memo = <<ListArg(<<"y">>)>>

C15_ReturnsFallbackResult ==
  (HeldCalled /\ made.op \in OrWarnOps /\ made.window = JsUndefined /\ last.window = JsUndefined) =>
    /\ ~result.threw
    /\ InstanceOfFunction(made.arg1) => Called = <<[fn |-> made.arg1.name, args |-> given]>>
    /\ result.v = Apply(FallbackOfMade, given)

====
